---------------------------- MODULE Spec2Model ----------------------------
(***************************************************************************)
(* EcoPort alert engine (src/simple_ecoport.py): the telemetry source      *)
(* DynamicDataGenerator, the mutable Config.ALERT_THRESHOLDS and the       *)
(* AlertEngine with its twelve rules, its bounded alert history and its    *)
(* statistics.                                                             *)
(*                                                                         *)
(* Numbers.  The program computes on floats.  The model draws every        *)
(* sample from integers and every random factor from whole percents,       *)
(* chosen so that each product the program forms is again an integer;      *)
(* quotients (means, rates, the least-squares line) are kept as exact      *)
(* fractions and compared by cross-multiplication.  Time is a logical      *)
(* clock: base_time is 0 and datetime.now() reads the variable now.        *)
(***************************************************************************)
EXTENDS Integers, Sequences, FiniteSets, TLC

VARIABLES
    historical_data,  \* DynamicDataGenerator.historical_data (list of dicts)
    seed,             \* ghost: the draws the constructor made
    thresholds,       \* config.ALERT_THRESHOLDS
    active_alerts,    \* AlertEngine.active_alerts
    alert_history,    \* AlertEngine.alert_history
    appended,         \* ghost: every alert ever appended to alert_history
    current_data,     \* the snapshot the last evaluation was handed
    trend_data,       \* the history the last evaluation was handed
    now,              \* the clock datetime.now() reads
    ret,              \* the last call: [op, arg, value, exc]
    pc,               \* where a call taken step by step stands ("idle": none)
    call_thresholds   \* ghost: ALERT_THRESHOLDS when that call started

vars == <<historical_data, seed, thresholds, active_alerts, alert_history,
          appended, current_data, trend_data, now, ret, pc, call_thresholds>>

---------------------------------------------------------------------------
(* Bounds of the model and constants of the program *)

MaxCycles == 4          \* evaluation cycles explored
HistoryWindow == 24     \* range(24) in _initialize_historical_data
DefaultHours == 6       \* get_trend_data(self, hours=6)
AlertHistoryLimit == 50 \* len(self.alert_history) > 50 ... [-50:]
MaxRuleCycles == 2      \* evaluations explored on a source of any data
MaxCaseCycles == 1      \* evaluations explored on the histories at the window edges
MaxStepCycles == 1      \* evaluations explored step by step under a writer
BaseTime == 0           \* self.base_time, the origin of the logical clock

---------------------------------------------------------------------------
(* Python lists and dicts *)

\* lst[-n:] for a Python list and n >= 0.  -0 is 0, so lst[-0:] is lst[0:],
\* the whole list; for n > len(lst) the slice is the whole list as well.
LastSlice(lst, n) ==
    IF n = 0 \/ n >= Len(lst) THEN lst
    ELSE SubSeq(lst, Len(lst) - n + 1, Len(lst))

\* lst[:-1]
ButLast(lst) == IF Len(lst) = 0 THEN <<>> ELSE SubSeq(lst, 1, Len(lst) - 1)

\* key in d
Has(d, k) == k \in DOMAIN d

\* d.get(k, 0)
GetOr0(d, k) == IF k \in DOMAIN d THEN d[k] ELSE 0

\* d[k] = v on a dict
Put(d, k, v) == (k :> v) @@ d

\* {}
EmptyDict == [x \in {} |-> 0]

\* d.update(u)
Update(d, u) ==
    [x \in (DOMAIN d) \cup (DOMAIN u) |-> IF x \in DOMAIN u THEN u[x] ELSE d[x]]

Max2(a, b) == IF a >= b THEN a ELSE b
Min2(a, b) == IF a <= b THEN a ELSE b

RECURSIVE SumSeq(_)
SumSeq(s) == IF Len(s) = 0 THEN 0 ELSE s[1] + SumSeq(Tail(s))

\* sorted(data, key=lambda x: x['timestamp']): a stable sort.  The place of
\* data[i] in the result is one more than the number of entries that go
\* before it: those with a smaller key, and those before it with its key.
PlaceByTimestamp(data, i) ==
    1 + Cardinality({j \in 1..Len(data) :
            \/ data[j]["timestamp"] < data[i]["timestamp"]
            \/ data[j]["timestamp"] = data[i]["timestamp"] /\ j < i})

SortedByTimestamp(data) ==
    [k \in 1..Len(data) |->
        data[CHOOSE i \in 1..Len(data) : PlaceByTimestamp(data, i) = k]]

---------------------------------------------------------------------------
(* Config.ALERT_THRESHOLDS.  energy_consumption_spike is the float 1.3,    *)
(* kept as the fraction 13/10.                                             *)

DefaultThresholds ==
    [carbon_emission_high |-> 1200,
     carbon_emission_critical |-> 1500,
     energy_efficiency_low |-> 70,
     energy_consumption_spike |-> <<13, 10>>,
     vessel_congestion |-> 250,
     esg_score_low |-> 60,
     renewable_ratio_low |-> 15]

\* The three sliders of main(), lines 796-812: every run of main() assigns
\* the three thresholds from the sliders.  The positions explored: the
\* defaults, and all three moved (ranges 800..2000, 50..90, 100..400).
SliderPositions ==
    {[carbon_emission_high |-> 1200, energy_efficiency_low |-> 70,
      vessel_congestion |-> 250],
     [carbon_emission_high |-> 1100, energy_efficiency_low |-> 80,
      vessel_congestion |-> 300]}

---------------------------------------------------------------------------
(* DynamicDataGenerator *)

ValueFields ==
    {"carbon_emission", "energy_consumption", "energy_efficiency",
     "vessel_count", "renewable_ratio", "esg_score", "terminal_1_power",
     "terminal_2_power", "terminal_3_power", "weather_wind_speed",
     "air_quality_aqi"}

Fields == ValueFields \cup {"timestamp"}

\* The ranges the constructor draws each field from (random.uniform and
\* random.randint, both ends included).
SeedRange ==
    [carbon_emission |-> <<800, 1300>>,
     energy_consumption |-> <<500, 2000>>,
     energy_efficiency |-> <<65, 90>>,
     vessel_count |-> <<50, 300>>,
     renewable_ratio |-> <<10, 35>>,
     esg_score |-> <<50, 95>>,
     terminal_1_power |-> <<200, 800>>,
     terminal_2_power |-> <<150, 600>>,
     terminal_3_power |-> <<300, 900>>,
     weather_wind_speed |-> <<5, 25>>,
     air_quality_aqi |-> <<20, 150>>]

\* The draws explored: profile p gives the values of the i-th dict the
\* constructor's loop appends (i = 0 is the newest, timestamp base_time).
NominalRow ==
    [carbon_emission |-> 1000, energy_consumption |-> 1000,
     energy_efficiency |-> 80, vessel_count |-> 100, renewable_ratio |-> 20,
     esg_score |-> 80, terminal_1_power |-> 400, terminal_2_power |-> 300,
     terminal_3_power |-> 500, weather_wind_speed |-> 10,
     air_quality_aqi |-> 50]

SeedProfiles == {"linear", "stressed"}

SeedDraw(p, i) ==
    CASE p = "linear" ->
            [NominalRow EXCEPT
                !.carbon_emission = IF i <= 5 THEN 1100 - 20 * i ELSE 1000]
      [] p = "stressed" ->
            [carbon_emission |->
                 IF i = 0 THEN 1300 ELSE IF i = 1 THEN 1100
                 ELSE IF i = 2 THEN 1000 ELSE 800,
             energy_consumption |-> IF i = 0 THEN 2000 ELSE 1000,
             energy_efficiency |-> 65,
             vessel_count |-> IF i <= 3 THEN 300 - 20 * i ELSE 200,
             renewable_ratio |-> 10,
             esg_score |-> 50,
             terminal_1_power |-> 800,
             terminal_2_power |-> 600,
             terminal_3_power |-> 900,
             weather_wind_speed |-> 25,
             air_quality_aqi |-> 150]

\* Every draw of profile p lies in the range the constructor draws it from
DrawsInRange(p) ==
    \A i \in 0..(HistoryWindow - 1) : \A f \in ValueFields :
        /\ SeedDraw(p, i)[f] >= SeedRange[f][1]
        /\ SeedDraw(p, i)[f] <= SeedRange[f][2]

\* _initialize_historical_data: 24 dicts, the i-th stamped base_time - i
\* hours, returned sorted by timestamp.
InitializeHistoricalData(p) ==
    SortedByTimestamp(
        [k \in 1..HistoryWindow |->
            Update([timestamp |-> BaseTime - (k - 1)], SeedDraw(p, k - 1))])

\* The random draws of one get_latest_data call: factors in percent
\* (uniform(0.95, 1.05), uniform(0.9, 1.1), uniform(0.8, 1.2)) and the
\* additive draws (uniform(-3, 3), randint(-10, 15), uniform(-2, 2),
\* randint(-5, 5), uniform(-3, 3), randint(-20, 20)).
Perturbations ==
    {[carbon |-> 100, consumption |-> 100, efficiency |-> 0, vessels |-> 0,
      renewable |-> 0, esg |-> 0, t1 |-> 100, t2 |-> 100, t3 |-> 100,
      wind |-> 0, aqi |-> 0],
     [carbon |-> 105, consumption |-> 110, efficiency |-> -3, vessels |-> 15,
      renewable |-> -2, esg |-> -5, t1 |-> 120, t2 |-> 120, t3 |-> 120,
      wind |-> 3, aqi |-> 20]}

\* value * factor, the factor in percent (exact for the draws explored)
Times(v, percent) == (v * percent) \div 100

\* get_latest_data: a copy of the last history entry, every field redrawn
\* around its value and clamped as the code clamps it.
GetLatestData(hist, r, t) ==
    LET latest == hist[Len(hist)] IN
    Update(latest,
        [timestamp |-> t,
         carbon_emission |-> Times(latest["carbon_emission"], r.carbon),
         energy_consumption |->
             Times(latest["energy_consumption"], r.consumption),
         energy_efficiency |->
             Max2(0, Min2(100, latest["energy_efficiency"] + r.efficiency)),
         vessel_count |-> Max2(0, latest["vessel_count"] + r.vessels),
         renewable_ratio |->
             Max2(0, Min2(50, latest["renewable_ratio"] + r.renewable)),
         esg_score |-> Max2(0, Min2(100, latest["esg_score"] + r.esg)),
         terminal_1_power |-> Times(latest["terminal_1_power"], r.t1),
         terminal_2_power |-> Times(latest["terminal_2_power"], r.t2),
         terminal_3_power |-> Times(latest["terminal_3_power"], r.t3),
         weather_wind_speed |->
             Max2(0, latest["weather_wind_speed"] + r.wind),
         air_quality_aqi |->
             Max2(0, Min2(300, latest["air_quality_aqi"] + r.aqi))])

\* A slip in get_latest_data: the last entry is updated in place, without
\* the .copy() of line 126
HistoryAfterLatestInPlace(hist, latest) ==
    [hist EXCEPT ![Len(hist)] = latest]

\* A generator that commits each snapshot: append, then drop the oldest
HistoryAfterLatestCommitted(hist, latest) ==
    LastSlice(Append(hist, latest), HistoryWindow)

\* What get_latest_data leaves in historical_data: the list is read, its
\* last entry copied, and nothing is written back.
HistoryAfterLatest(hist, latest) == hist

\* get_trend_data(hours): historical_data[-hours:]
GetTrendData(hist, hours) == LastSlice(hist, hours)

---------------------------------------------------------------------------
(* Arithmetic of the rules *)

\* A slip in a comparison: >= for >
FracGe(num, den, k) ==
    IF den > 0 THEN num >= k * den ELSE num <= k * den

\* num/den > k, for den # 0
FracGt(num, den, k) ==
    IF den > 0 THEN num > k * den ELSE num < k * den

RECURSIVE Pow10(_)
Pow10(d) == IF d = 0 THEN 1 ELSE 10 * Pow10(d - 1)

\* f"{num/den:.<d>f}" for den # 0: the quotient rounded to d decimals, ties
\* to even, as the integer count of 10^-d units (25.0 at d = 1 is 250).
FormatFixed(num, den, d) ==
    LET n == IF den > 0 THEN num * Pow10(d) ELSE (0 - num) * Pow10(d)
        m == IF den > 0 THEN den ELSE 0 - den
        q == n \div m
        r == n % m
    IN  IF 2 * r > m THEN q + 1
        ELSE IF 2 * r < m THEN q
        ELSE IF q % 2 = 0 THEN q ELSE q + 1

\* all(xs[i] < xs[i+1] for i in range(len(xs)-1))
StrictlyIncreasing(xs) == \A i \in 1..(Len(xs) - 1) : xs[i] < xs[i + 1]

\* [d[k] for d in lst], and whether it raises KeyError
Column(lst, k) == [i \in 1..Len(lst) |-> lst[i][k]]
ColumnRaises(lst, k) == \E i \in 1..Len(lst) : ~Has(lst[i], k)

\* np.polyfit(np.arange(n), ys, 1): the least-squares line through
\* (0, ys[1]), ..., (n-1, ys[n]) as slope = sn/sd, intercept = cn/cd.
PolyFit1(ys) ==
    LET n   == Len(ys)
        sx  == SumSeq([i \in 1..n |-> i - 1])
        sxx == SumSeq([i \in 1..n |-> (i - 1) * (i - 1)])
        sy  == SumSeq(ys)
        sxy == SumSeq([i \in 1..n |-> (i - 1) * ys[i]])
        d   == n * sxx - sx * sx
        s   == n * sxy - sx * sy
    IN  [sn |-> s, sd |-> d, cn |-> sy * d - s * sx, cd |-> n * d]

\* A slip in the index: the hour after the last sample but one short of
\* len(emissions) + 2
ForecastIndexOneShort(n) == n + 1

\* The index the fitted line is evaluated at: len(emissions) + 2
ForecastIndex(n) == n + 2

\* coefficients[0] * (len(emissions) + 2) + coefficients[1], as <<num, den>>
FutureEmission(ys) ==
    LET c == PolyFit1(ys)
        n == Len(ys)
    IN  <<c.sn * ForecastIndex(n) * n + c.cn, c.cd>>

---------------------------------------------------------------------------
(* Alerts and the outcome of a rule: the list so far, and the exception    *)
(* that ended it ("none" when it returned).                                *)

Alert(type, priority, title, message, recommendation, timestamp, category) ==
    [type |-> type, priority |-> priority, title |-> title,
     message |-> message, recommendation |-> recommendation,
     timestamp |-> timestamp, category |-> category]

\* An alert's content, the timestamp aside
Content(a) ==
    [type |-> a.type, priority |-> a.priority, title |-> a.title,
     message |-> a.message, recommendation |-> a.recommendation,
     category |-> a.category]

Contents(alerts) == [i \in 1..Len(alerts) |-> Content(alerts[i])]

Ok(alerts) == [alerts |-> alerts, exc |-> "none"]
Raise(alerts, e) == [alerts |-> alerts, exc |-> e]

\* self.active_alerts.append({... 'timestamp': current_data['timestamp'] ...})
Emit(alerts, current, type, priority, title, message, advice, category) ==
    IF Has(current, "timestamp")
    THEN Ok(Append(alerts, Alert(type, priority, title, message, advice,
                                 current["timestamp"], category)))
    ELSE Raise(alerts, "KeyError")

---------------------------------------------------------------------------
(* The rules of AlertEngine *)

\* A slip in the level rule: "if" for "elif", so both comparisons run
CarbonLevelRuleBothBranches(emission, current, thr, alerts) ==
    LET first ==
            IF emission > thr.carbon_emission_critical
            THEN Emit(alerts, current, "error", "critical", "carbon critical",
                      [text |-> "emission over critical",
                       args |-> <<FormatFixed(emission, 1, 0),
                                  thr.carbon_emission_critical>>],
                      "start emergency reduction", "emission")
            ELSE Ok(alerts)
    IN  IF first.exc = "none" /\ emission > thr.carbon_emission_high
        THEN Emit(first.alerts, current, "warning", "high", "carbon high",
                  [text |-> "emission over warning",
                   args |-> <<FormatFixed(emission, 1, 0),
                              thr.carbon_emission_high>>],
                  "optimise scheduling", "emission")
        ELSE first

\* _check_carbon_emission_alerts, lines 196-215: the level of the emission
CarbonLevelRule(emission, current, thr, alerts) ==
    IF emission > thr.carbon_emission_critical
    THEN Emit(alerts, current, "error", "critical", "carbon critical",
              [text |-> "emission over critical",
               args |-> <<FormatFixed(emission, 1, 0),
                          thr.carbon_emission_critical>>],
              "start emergency reduction", "emission")
    ELSE IF emission > thr.carbon_emission_high
    THEN Emit(alerts, current, "warning", "high", "carbon high",
              [text |-> "emission over warning",
               args |-> <<FormatFixed(emission, 1, 0),
                          thr.carbon_emission_high>>],
              "optimise scheduling", "emission")
    ELSE Ok(alerts)

\* _check_carbon_emission_alerts, lines 196 and 206: the comparisons alone,
\* each on the threshold as it reads when the comparison is made
CarbonLevelBranch(emission, thr) ==
    IF emission > thr.carbon_emission_critical THEN "critical"
    ELSE IF emission > thr.carbon_emission_high THEN "high"
    ELSE "none"

\* _check_carbon_emission_alerts, lines 197-205 and 207-215: the append of
\* the branch taken; the f-string reads the threshold again
CarbonLevelAlert(branch, emission, current, thr, alerts) ==
    IF branch = "critical"
    THEN Emit(alerts, current, "error", "critical", "carbon critical",
              [text |-> "emission over critical",
               args |-> <<FormatFixed(emission, 1, 0),
                          thr.carbon_emission_critical>>],
              "start emergency reduction", "emission")
    ELSE IF branch = "high"
    THEN Emit(alerts, current, "warning", "high", "carbon high",
              [text |-> "emission over warning",
               args |-> <<FormatFixed(emission, 1, 0),
                          thr.carbon_emission_high>>],
              "optimise scheduling", "emission")
    ELSE Ok(alerts)

\* A slip in the carbon trend: the current emission is taken as the newest
\* of the three readings, after the last two of the history
CarbonTrendRuleOnCurrent(current, trend, alerts) ==
    IF Len(trend) >= 3
    THEN LET last2 == LastSlice(trend, 2) IN
         IF ColumnRaises(last2, "carbon_emission")
         THEN Raise(alerts, "KeyError")
         ELSE LET recent_emissions ==
                      Append(Column(last2, "carbon_emission"),
                             current["carbon_emission"])
              IN
              IF StrictlyIncreasing(recent_emissions)
              THEN IF recent_emissions[1] = 0
                   THEN Raise(alerts, "ZeroDivisionError")
                   ELSE LET num == (recent_emissions[3] - recent_emissions[1])
                                   * 100
                            den == recent_emissions[1]
                        IN  IF FracGt(num, den, 15)
                            THEN Emit(alerts, current, "warning", "medium",
                                      "carbon rising",
                                      [text |-> "emission rose over 3 hours",
                                       args |-> <<FormatFixed(num, den, 1)>>],
                                      "check equipment", "trend")
                            ELSE Ok(alerts)
              ELSE Ok(alerts)
    ELSE Ok(alerts)

\* _check_carbon_emission_alerts, lines 217-231: the trend of the last 3
CarbonTrendRule(current, trend, alerts) ==
    IF Len(trend) >= 3
    THEN LET last3 == LastSlice(trend, 3) IN
         IF ColumnRaises(last3, "carbon_emission")
         THEN Raise(alerts, "KeyError")
         ELSE LET recent_emissions == Column(last3, "carbon_emission") IN
              IF StrictlyIncreasing(recent_emissions)
              THEN IF recent_emissions[1] = 0
                   THEN Raise(alerts, "ZeroDivisionError")
                   ELSE LET num == (recent_emissions[3] - recent_emissions[1])
                                   * 100
                            den == recent_emissions[1]
                        IN  IF FracGt(num, den, 15)
                            THEN Emit(alerts, current, "warning", "medium",
                                      "carbon rising",
                                      [text |-> "emission rose over 3 hours",
                                       args |-> <<FormatFixed(num, den, 1)>>],
                                      "check equipment", "trend")
                            ELSE Ok(alerts)
              ELSE Ok(alerts)
    ELSE Ok(alerts)

CheckCarbonEmissionAlerts(current, trend, thr, alerts) ==
    IF ~Has(current, "carbon_emission") THEN Raise(alerts, "KeyError")
    ELSE LET level == CarbonLevelRule(current["carbon_emission"], current,
                                      thr, alerts) IN
         IF level.exc # "none" THEN level
         ELSE CarbonTrendRule(current, trend, level.alerts)

\* A slip in the efficiency rule: the threshold is the one read when the
\* engine was built, not config.ALERT_THRESHOLDS at the time of the check
EnergyEfficiencyRuleCached(efficiency, current, thr, alerts) ==
    IF efficiency < DefaultThresholds.energy_efficiency_low
    THEN Emit(alerts, current, "warning", "medium", "efficiency low",
              [text |-> "efficiency under standard",
               args |-> <<FormatFixed(efficiency, 1, 1),
                          DefaultThresholds.energy_efficiency_low>>],
              "maintain equipment", "efficiency")
    ELSE Ok(alerts)

\* _check_energy_alerts, lines 240-249
EnergyEfficiencyRule(efficiency, current, thr, alerts) ==
    IF efficiency < thr.energy_efficiency_low
    THEN Emit(alerts, current, "warning", "medium", "efficiency low",
              [text |-> "efficiency under standard",
               args |-> <<FormatFixed(efficiency, 1, 1),
                          thr.energy_efficiency_low>>],
              "maintain equipment", "efficiency")
    ELSE Ok(alerts)

\* A slip in the mean: trend_data for trend_data[:-1]
AllSamples(trend) == trend

\* trend_data[:-1], the samples the mean is taken over
AveragedSamples(trend) == ButLast(trend)

\* _check_energy_alerts, lines 252-263.  np.mean of the consumption of all
\* samples but the last is total/count; consumption/avg with avg the
\* np.float64 0.0 does not raise: it is inf, formatted "inf".
EnergySpikeRule(consumption, current, trend, thr, alerts) ==
    IF Len(trend) >= 2
    THEN LET rest == AveragedSamples(trend) IN
         IF ColumnRaises(rest, "energy_consumption")
         THEN Raise(alerts, "KeyError")
         ELSE LET total == SumSeq(Column(rest, "energy_consumption"))
                  count == Len(rest)
                  ratio == thr.energy_consumption_spike
              IN  IF consumption * count * ratio[2] > total * ratio[1]
                  THEN Emit(alerts, current, "error", "high",
                            "consumption spike",
                            IF total = 0
                            THEN [text |-> "consumption over mean by inf",
                                  args |-> <<FormatFixed(consumption, 1, 0)>>]
                            ELSE [text |-> "consumption over mean",
                                  args |->
                                    <<FormatFixed(consumption, 1, 0),
                                      FormatFixed(
                                        (consumption * count - total) * 100,
                                        total, 0)>>],
                            "check all equipment", "consumption")
                  ELSE Ok(alerts)
    ELSE Ok(alerts)

\* _check_energy_alerts, lines 266-275
RenewableRule(renewable, current, thr, alerts) ==
    IF renewable < thr.renewable_ratio_low
    THEN Emit(alerts, current, "info", "low", "renewable low",
              [text |-> "renewable ratio under target",
               args |-> <<FormatFixed(renewable, 1, 1),
                          thr.renewable_ratio_low>>],
              "use more renewable energy", "renewable")
    ELSE Ok(alerts)

CheckEnergyAlerts(current, trend, thr, alerts) ==
    IF ~({"energy_efficiency", "energy_consumption", "renewable_ratio"}
            \subseteq DOMAIN current)
    THEN Raise(alerts, "KeyError")
    ELSE LET low == EnergyEfficiencyRule(current["energy_efficiency"],
                                         current, thr, alerts) IN
         IF low.exc # "none" THEN low
         ELSE LET spike == EnergySpikeRule(current["energy_consumption"],
                                           current, trend, thr, low.alerts) IN
              IF spike.exc # "none" THEN spike
              ELSE RenewableRule(current["renewable_ratio"], current, thr,
                                 spike.alerts)

\* The f-strings of _check_equipment_alerts, by terminal
TitlePowerHigh ==
    <<"terminal 1 power abnormal", "terminal 2 power abnormal",
      "terminal 3 power abnormal">>
TitlePowerLow ==
    <<"terminal 1 power low", "terminal 2 power low", "terminal 3 power low">>
AdvicePowerHigh ==
    <<"check terminal 1 equipment", "check terminal 2 equipment",
      "check terminal 3 equipment">>
AdvicePowerLow ==
    <<"check terminal 1 plan", "check terminal 2 plan",
      "check terminal 3 plan">>

\* A slip in the terminal comparisons: >= and <= for > and <
TerminalRuleInclusive(terminal, power, current, alerts) ==
    IF power >= 700
    THEN Emit(alerts, current, "warning", "medium", TitlePowerHigh[terminal],
              [text |-> "terminal power over normal range",
               args |-> <<terminal, FormatFixed(power, 1, 0)>>],
              AdvicePowerHigh[terminal], "equipment")
    ELSE IF power <= 100
    THEN Emit(alerts, current, "info", "low", TitlePowerLow[terminal],
              [text |-> "terminal power low",
               args |-> <<terminal, FormatFixed(power, 1, 0)>>],
              AdvicePowerLow[terminal], "equipment")
    ELSE Ok(alerts)

\* _check_equipment_alerts, lines 285-305, for one terminal
TerminalRule(terminal, power, current, alerts) ==
    IF power > 700
    THEN Emit(alerts, current, "warning", "medium", TitlePowerHigh[terminal],
              [text |-> "terminal power over normal range",
               args |-> <<terminal, FormatFixed(power, 1, 0)>>],
              AdvicePowerHigh[terminal], "equipment")
    ELSE IF power < 100
    THEN Emit(alerts, current, "info", "low", TitlePowerLow[terminal],
              [text |-> "terminal power low",
               args |-> <<terminal, FormatFixed(power, 1, 0)>>],
              AdvicePowerLow[terminal], "equipment")
    ELSE Ok(alerts)

CheckEquipmentAlerts(current, trend, alerts) ==
    IF ~({"terminal_1_power", "terminal_2_power", "terminal_3_power"}
            \subseteq DOMAIN current)
    THEN Raise(alerts, "KeyError")
    ELSE LET t1 == TerminalRule(1, current["terminal_1_power"], current,
                                alerts) IN
         IF t1.exc # "none" THEN t1
         ELSE LET t2 == TerminalRule(2, current["terminal_2_power"], current,
                                     t1.alerts) IN
              IF t2.exc # "none" THEN t2
              ELSE TerminalRule(3, current["terminal_3_power"], current,
                                t2.alerts)

\* A slip in the wind comparison: >= for >
WeatherRuleFromThreshold(wind_speed, current, alerts) ==
    IF wind_speed >= 20
    THEN Emit(alerts, current, "warning", "medium", "strong wind",
              [text |-> "wind speed",
               args |-> <<FormatFixed(wind_speed, 1, 1)>>],
              "secure containers", "weather")
    ELSE Ok(alerts)

\* _check_environmental_alerts, lines 313-322
WeatherRule(wind_speed, current, alerts) ==
    IF wind_speed > 20
    THEN Emit(alerts, current, "warning", "medium", "strong wind",
              [text |-> "wind speed",
               args |-> <<FormatFixed(wind_speed, 1, 1)>>],
              "secure containers", "weather")
    ELSE Ok(alerts)

\* _check_environmental_alerts, lines 325-335
AirQualityRule(aqi, current, alerts) ==
    IF aqi > 100
    THEN Emit(alerts, current, "warning", "medium", "air quality",
              [text |-> IF aqi > 150 THEN "aqi unhealthy"
                        ELSE "aqi unhealthy for sensitive groups",
               args |-> <<aqi>>],
              "wear masks", "environment")
    ELSE Ok(alerts)

CheckEnvironmentalAlerts(current, alerts) ==
    IF ~({"weather_wind_speed", "air_quality_aqi"} \subseteq DOMAIN current)
    THEN Raise(alerts, "KeyError")
    ELSE LET wind == WeatherRule(current["weather_wind_speed"], current,
                                 alerts) IN
         IF wind.exc # "none" THEN wind
         ELSE AirQualityRule(current["air_quality_aqi"], current, wind.alerts)

\* _check_operational_alerts, lines 342-351
VesselCongestionRule(vessel_count, current, thr, alerts) ==
    IF vessel_count > thr.vessel_congestion
    THEN Emit(alerts, current, "warning", "high", "vessel congestion",
              [text |-> "vessels in port", args |-> <<vessel_count>>],
              "optimise vessel scheduling", "operation")
    ELSE Ok(alerts)

\* A slip in the vessel trend: the guard len(trend_data) >= 4 left out
VesselTrendRuleUnguarded(vessel_count, current, trend, alerts) ==
    LET last4 == LastSlice(trend, 4) IN
    IF ColumnRaises(last4, "vessel_count")
    THEN Raise(alerts, "KeyError")
    ELSE IF StrictlyIncreasing(Column(last4, "vessel_count"))
         THEN Emit(alerts, current, "info", "medium", "vessels rising",
                   [text |-> "vessels rose over 4 hours",
                    args |-> <<vessel_count>>],
                   "prepare more staff", "trend")
         ELSE Ok(alerts)

\* _check_operational_alerts, lines 354-365
VesselTrendRule(vessel_count, current, trend, alerts) ==
    IF Len(trend) >= 4
    THEN LET last4 == LastSlice(trend, 4) IN
         IF ColumnRaises(last4, "vessel_count")
         THEN Raise(alerts, "KeyError")
         ELSE IF StrictlyIncreasing(Column(last4, "vessel_count"))
              THEN Emit(alerts, current, "info", "medium", "vessels rising",
                        [text |-> "vessels rose over 4 hours",
                         args |-> <<vessel_count>>],
                        "prepare more staff", "trend")
              ELSE Ok(alerts)
    ELSE Ok(alerts)

CheckOperationalAlerts(current, trend, thr, alerts) ==
    IF ~Has(current, "vessel_count") THEN Raise(alerts, "KeyError")
    ELSE LET congestion == VesselCongestionRule(current["vessel_count"],
                                                current, thr, alerts) IN
         IF congestion.exc # "none" THEN congestion
         ELSE VesselTrendRule(current["vessel_count"], current, trend,
                              congestion.alerts)

\* A slip in _check_esg_alerts: the score is clamped again, to the range
\* the generator seeds it from, before it is compared and reported
CheckEsgAlertsReclamping(current, thr, alerts) ==
    IF ~Has(current, "esg_score") THEN Raise(alerts, "KeyError")
    ELSE LET esg_score == Max2(SeedRange["esg_score"][1],
                               Min2(SeedRange["esg_score"][2],
                                    current["esg_score"]))
         IN  IF esg_score < thr.esg_score_low
             THEN Emit(alerts, current, "warning", "medium", "esg low",
                       [text |-> "esg score under target",
                        args |-> <<esg_score, thr.esg_score_low>>],
                       "strengthen environmental measures", "esg")
             ELSE Ok(alerts)

\* _check_esg_alerts
CheckEsgAlerts(current, thr, alerts) ==
    IF ~Has(current, "esg_score") THEN Raise(alerts, "KeyError")
    ELSE IF current["esg_score"] < thr.esg_score_low
    THEN Emit(alerts, current, "warning", "medium", "esg low",
              [text |-> "esg score under target",
               args |-> <<current["esg_score"], thr.esg_score_low>>],
              "strengthen environmental measures", "esg")
    ELSE Ok(alerts)

\* _check_predictive_alerts; the alert is stamped datetime.now(), read at t
CheckPredictiveAlerts(trend, thr, t, alerts) ==
    IF Len(trend) >= 6
    THEN IF ColumnRaises(trend, "carbon_emission")
         THEN Raise(alerts, "KeyError")
         ELSE LET future_emission ==
                      FutureEmission(Column(trend, "carbon_emission"))
              IN  IF FracGt(future_emission[1], future_emission[2],
                            thr.carbon_emission_high)
                  THEN Ok(Append(alerts,
                          Alert("info", "medium", "prediction",
                                [text |-> "emission expected in 2 hours",
                                 args |-> <<FormatFixed(future_emission[1],
                                                        future_emission[2],
                                                        0)>>],
                                "adjust the plan ahead", t, "prediction")))
                  ELSE Ok(alerts)
    ELSE Ok(alerts)

\* A slip in analyze_and_generate_alerts: active_alerts is not emptied
KeptAlerts(active) == active

\* self.active_alerts = []
ClearedAlerts(active) == <<>>

\* A slip in analyze_and_generate_alerts: the checks after the first one
\* that left an alert are not run
RunChecksUntilOneFires(active, current, trend, thr, t) ==
    LET carbon == CheckCarbonEmissionAlerts(current, trend, thr,
                                            ClearedAlerts(active)) IN
    IF carbon.exc # "none" \/ carbon.alerts # <<>> THEN carbon ELSE
    LET energy == CheckEnergyAlerts(current, trend, thr, carbon.alerts) IN
    IF energy.exc # "none" \/ energy.alerts # <<>> THEN energy ELSE
    LET equipment == CheckEquipmentAlerts(current, trend, energy.alerts) IN
    IF equipment.exc # "none" \/ equipment.alerts # <<>> THEN equipment ELSE
    LET environmental == CheckEnvironmentalAlerts(current,
                                                  equipment.alerts) IN
    IF environmental.exc # "none" \/ environmental.alerts # <<>>
    THEN environmental ELSE
    LET operational == CheckOperationalAlerts(current, trend, thr,
                                              environmental.alerts) IN
    IF operational.exc # "none" \/ operational.alerts # <<>>
    THEN operational ELSE
    LET esg == CheckEsgAlerts(current, thr, operational.alerts) IN
    IF esg.exc # "none" \/ esg.alerts # <<>> THEN esg
    ELSE CheckPredictiveAlerts(trend, thr, t, esg.alerts)

\* analyze_and_generate_alerts, lines 164-185: active_alerts is emptied and
\* the seven checks run in order; an exception ends the call where it is
\* raised, with active_alerts as the checks so far left it.
RunChecks(active, current, trend, thr, t) ==
    LET carbon == CheckCarbonEmissionAlerts(current, trend, thr,
                                            ClearedAlerts(active)) IN
    IF carbon.exc # "none" THEN carbon ELSE
    LET energy == CheckEnergyAlerts(current, trend, thr, carbon.alerts) IN
    IF energy.exc # "none" THEN energy ELSE
    LET equipment == CheckEquipmentAlerts(current, trend, energy.alerts) IN
    IF equipment.exc # "none" THEN equipment ELSE
    LET environmental == CheckEnvironmentalAlerts(current,
                                                  equipment.alerts) IN
    IF environmental.exc # "none" THEN environmental ELSE
    LET operational == CheckOperationalAlerts(current, trend, thr,
                                              environmental.alerts) IN
    IF operational.exc # "none" THEN operational ELSE
    LET esg == CheckEsgAlerts(current, thr, operational.alerts) IN
    IF esg.exc # "none" THEN esg
    ELSE CheckPredictiveAlerts(trend, thr, t, esg.alerts)

\* A slip in _update_alert_history: the new alerts go before the old ones
UpdateAlertHistoryNewestFirst(history, active) ==
    LET all == active \o history IN
    IF Len(all) > AlertHistoryLimit
    THEN SubSeq(all, Len(all) - AlertHistoryLimit + 1, Len(all))
    ELSE all

\* A slip in _update_alert_history: the slice [:50] keeps the oldest entries
UpdateAlertHistoryKeepingOldest(history, active) ==
    LET all == history \o active IN
    IF Len(all) > AlertHistoryLimit THEN SubSeq(all, 1, AlertHistoryLimit)
    ELSE all

\* _update_alert_history
UpdateAlertHistory(history, active) ==
    LET all == history \o active IN
    IF Len(all) > AlertHistoryLimit
    THEN SubSeq(all, Len(all) - AlertHistoryLimit + 1, Len(all))
    ELSE all

\* A slip in the counting step: by_x[key] = 1 for by_x.get(key, 0) + 1
CountedWithoutIncrement(counts, key) == Put(counts, key, 1)

\* by_x[key] = by_x.get(key, 0) + 1
Counted(counts, key) == Put(counts, key, GetOr0(counts, key) + 1)

\* for alert in self.alert_history, over the entries lo..hi in order: the
\* first half of the range is counted, then the second half on its result
\* (bound through a one-element set, so it is a value before the second
\* half starts)
RECURSIVE CountRange(_, _, _, _, _)
CountRange(history, field, counts, lo, hi) ==
    IF lo > hi THEN counts
    ELSE IF lo = hi THEN Counted(counts, history[lo][field])
    ELSE LET mid == (lo + hi) \div 2 IN
         CHOOSE result \in
             {CountRange(history, field, first, mid + 1, hi) :
                 first \in {CountRange(history, field, counts, lo, mid)}} :
             TRUE

\* The counting loop of get_alert_statistics over one field
CountBy(history, field, counts) ==
    CountRange(history, field, counts, 1, Len(history))

\* get_alert_statistics without its guard on an empty history
GetAlertStatisticsUnguarded(history) ==
    [total |-> Len(history),
     by_type |-> CountBy(history, "type", EmptyDict),
     by_category |-> CountBy(history, "category", EmptyDict),
     by_priority |-> CountBy(history, "priority", EmptyDict)]

\* get_alert_statistics
GetAlertStatistics(history) ==
    IF Len(history) = 0 THEN EmptyDict
    ELSE [total |-> Len(history),
          by_type |-> CountBy(history, "type", EmptyDict),
          by_category |-> CountBy(history, "category", EmptyDict),
          by_priority |-> CountBy(history, "priority", EmptyDict)]

---------------------------------------------------------------------------
(* The program: one DynamicDataGenerator, one AlertEngine on it, and the   *)
(* sliders of main().                                                      *)

Call(op, arg, value, exc) ==
    [op |-> op, arg |-> arg, value |-> value, exc |-> exc]

\* The hours get_trend_data is called with (6 by default and in the trend
\* tab, 12 in the overview) and the edges of its range
HoursTried == {0, DefaultHours, HistoryWindow + 1}

Init ==
    /\ seed \in {p \in SeedProfiles : DrawsInRange(p)}
    /\ historical_data = InitializeHistoricalData(seed)
    /\ thresholds = DefaultThresholds
    /\ active_alerts = <<>>
    /\ alert_history = <<>>
    /\ appended = <<>>
    /\ current_data = EmptyDict
    /\ trend_data = <<>>
    /\ now = BaseTime + 1
    /\ ret = Call("init", 0, <<>>, "none")
    /\ pc = "idle"
    /\ call_thresholds = thresholds

\* A slip in analyze_and_generate_alerts: _update_alert_history in a
\* finally clause, so it runs when a check raised as well
EvaluateUpdatingAfterRaise(current, trend) ==
    \E res \in {RunChecks(active_alerts, current, trend, thresholds, now)} :
    /\ active_alerts' = res.alerts
    /\ alert_history' = UpdateAlertHistory(alert_history, res.alerts)
    /\ appended' = appended \o res.alerts
    /\ current_data' = current
    /\ trend_data' = trend
    /\ ret' = Call("analyze", 0,
                   IF res.exc = "none" THEN res.alerts ELSE <<>>, res.exc)
    /\ now' = now + 1
    /\ UNCHANGED <<pc, call_thresholds>>

\* analyze_and_generate_alerts once the source has handed over current and
\* trend_data: the checks, then _update_alert_history unless a check raised.
Evaluate(current, trend) ==
    \E res \in {RunChecks(active_alerts, current, trend, thresholds, now)} :
    /\ active_alerts' = res.alerts
    /\ alert_history' =
           IF res.exc = "none"
           THEN UpdateAlertHistory(alert_history, res.alerts)
           ELSE alert_history
    /\ appended' = IF res.exc = "none" THEN appended \o res.alerts
                   ELSE appended
    /\ current_data' = current
    /\ trend_data' = trend
    /\ ret' = Call("analyze", 0,
                   IF res.exc = "none" THEN res.alerts ELSE <<>>, res.exc)
    /\ now' = now + 1
    /\ UNCHANGED <<pc, call_thresholds>>

\* st.session_state.alert_engine.analyze_and_generate_alerts()
Analyze ==
    /\ now <= MaxCycles
    /\ \E r \in Perturbations :
          \E current \in {GetLatestData(historical_data, r, now)} :
          /\ historical_data' = HistoryAfterLatest(historical_data, current)
          /\ Evaluate(current, GetTrendData(historical_data', DefaultHours))
    /\ UNCHANGED <<seed, thresholds>>

\* st.session_state.data_generator.get_latest_data()
LatestData ==
    /\ \E r \in Perturbations :
          \E latest \in {GetLatestData(historical_data, r, now)} :
          /\ historical_data' = HistoryAfterLatest(historical_data, latest)
          /\ ret' = Call("get_latest_data", 0, latest, "none")
    /\ UNCHANGED <<seed, thresholds, active_alerts, alert_history,
                   appended, current_data, trend_data, now, pc,
                   call_thresholds>>

\* st.session_state.data_generator.get_trend_data(hours)
TrendData ==
    /\ \E hours \in HoursTried :
          ret' = Call("get_trend_data", hours,
                      GetTrendData(historical_data, hours), "none")
    /\ UNCHANGED <<historical_data, seed, thresholds, active_alerts,
                   alert_history, appended, current_data, trend_data, now,
                   pc, call_thresholds>>

\* st.session_state.alert_engine.get_alert_statistics()
AlertStatistics ==
    /\ ret' = Call("get_alert_statistics", 0,
                   GetAlertStatistics(alert_history), "none")
    /\ UNCHANGED <<historical_data, seed, thresholds, active_alerts,
                   alert_history, appended, current_data, trend_data, now,
                   pc, call_thresholds>>

\* config.ALERT_THRESHOLDS[name] = st.slider(...), for the three sliders
SetThresholds ==
    /\ \E pos \in SliderPositions :
          /\ thresholds' = Update(thresholds, pos)
          /\ ret' = Call("set_thresholds", 0, pos, "none")
    /\ UNCHANGED <<historical_data, seed, active_alerts, alert_history,
                   appended, current_data, trend_data, now, pc,
                   call_thresholds>>

Next == Analyze \/ LatestData \/ TrendData \/ AlertStatistics \/ SetThresholds

Spec == Init /\ [][Next]_vars

---------------------------------------------------------------------------
(* The engine on a source of any data.  AlertEngine(data_generator) takes  *)
(* any object with get_latest_data and get_trend_data; here the source     *)
(* hands over snapshots and histories of the data contract, the edges of   *)
(* the contract and violations of it, and ALERT_THRESHOLDS holds any of    *)
(* a few settings.                                                         *)

\* del d[k]
Without(d, k) == [x \in (DOMAIN d) \ {k} |-> d[x]]

Snapshot(t, row) == Update([timestamp |-> t], row)

\* Readings inside the documented ranges
ContractRows ==
    {NominalRow,
     [NominalRow EXCEPT !.carbon_emission = 1201],
     [NominalRow EXCEPT !.carbon_emission = 1500],
     [NominalRow EXCEPT !.carbon_emission = 1501]}

\* Readings with a bounded field outside its documented range
OutOfRangeRows ==
    {[NominalRow EXCEPT !.energy_efficiency = 101],
     [NominalRow EXCEPT !.esg_score = -5, !.vessel_count = -1]}

\* Readings with a required field missing
MissingFieldSnapshots(t) ==
    {Without(Snapshot(t, NominalRow), "carbon_emission"),
     Without(Snapshot(t, [NominalRow EXCEPT !.carbon_emission = 1501]),
             "esg_score")}

SourceSnapshots(t) ==
    {Snapshot(t, row) : row \in ContractRows \cup OutOfRangeRows}
        \cup MissingFieldSnapshots(t)

\* A history whose samples carry the given emissions and consumptions,
\* oldest first, one hour apart, the newest at base_time
History(emissions, consumptions) ==
    [i \in 1..Len(emissions) |->
        Snapshot(BaseTime - (Len(emissions) - i),
                 [NominalRow EXCEPT !.carbon_emission = emissions[i],
                                    !.energy_consumption = consumptions[i]])]

SourceHistories ==
    {<<>>,
     History(<<0, 10, 20>>, <<1000, 1000, 1000>>),
     History(<<1000, 1000, 1000>>, <<0, 0, 1000>>),
     History(<<1000, 1020, 1040, 1060, 1080, 1100>>,
             <<1000, 1000, 1000, 1000, 1000, 1000>>)}

ThresholdSettings ==
    {DefaultThresholds,
     [DefaultThresholds EXCEPT !.carbon_emission_high = 1100],
     [DefaultThresholds EXCEPT !.carbon_emission_high = 1600],
     [DefaultThresholds EXCEPT !.carbon_emission_critical = 1000]}

InitRules ==
    /\ seed = "none"
    /\ historical_data = <<>>
    /\ thresholds \in ThresholdSettings
    /\ active_alerts = <<>>
    /\ alert_history = <<>>
    /\ appended = <<>>
    /\ current_data = EmptyDict
    /\ trend_data = <<>>
    /\ now = BaseTime + 1
    /\ ret = Call("init", 0, <<>>, "none")
    /\ pc = "idle"
    /\ call_thresholds = thresholds

\* analyze_and_generate_alerts on what the source hands over
AnalyzeSource ==
    /\ now <= MaxRuleCycles
    /\ \E current \in SourceSnapshots(now) :
          \E trend \in SourceHistories : Evaluate(current, trend)
    /\ UNCHANGED <<historical_data, seed, thresholds>>

NextRules == AnalyzeSource \/ AlertStatistics

SpecRules == InitRules /\ [][NextRules]_vars

---------------------------------------------------------------------------
(* The engine on histories at the edges of the rules' windows and          *)
(* comparisons: fewer samples than a rule needs, exactly as many, and      *)
(* readings on either side of a threshold.                                 *)

\* A history of Len(values) samples, oldest first, one hour apart, the
\* newest at base_time, nominal in every field but the given one
Samples(field, values) ==
    [i \in 1..Len(values) |->
        Snapshot(BaseTime - (Len(values) - i),
                 [f \in ValueFields |->
                     IF f = field THEN values[i] ELSE NominalRow[f]])]

Flat(n, c) == [i \in 1..n |-> c]

LinearSeries == <<1000, 1020, 1040, 1060, 1080, 1100>>

EmissionSeries ==
    {<<>>, <<100, 200>>, <<100, 110, 125>>, <<100, 95, 110>>,
     <<100, 110, 115>>, <<100, 110, 116>>, <<200, 100, 110, 125>>,
     <<1000, 1100, 1200, 1300, 1400>>,
     Flat(6, 1199), Flat(6, 1200), Flat(6, 1201), LinearSeries,
     <<2200, 2200, 1250, 1250, 1250, 1250, 1250, 1250>>}

ConsumptionSeries ==
    {<<500>>, <<500, 651>>, <<500, 500, 500, 500, 650>>,
     <<500, 500, 500, 500, 651>>}

VesselSeries ==
    {<<100, 110, 120>>, <<100, 110, 120, 130>>, <<100, 110, 110, 130>>}

CaseHistories ==
    {Samples("carbon_emission", ys) : ys \in EmissionSeries}
        \cup {Samples("energy_consumption", ys) : ys \in ConsumptionSeries}
        \cup {Samples("vessel_count", ys) : ys \in VesselSeries}

CaseRows ==
    {NominalRow,
     [NominalRow EXCEPT !.energy_consumption = 650],
     [NominalRow EXCEPT !.energy_consumption = 651],
     [NominalRow EXCEPT !.weather_wind_speed = 20],
     [NominalRow EXCEPT !.weather_wind_speed = 21],
     [NominalRow EXCEPT !.terminal_1_power = 700],
     [NominalRow EXCEPT !.terminal_1_power = 701],
     [NominalRow EXCEPT !.terminal_2_power = 100],
     [NominalRow EXCEPT !.terminal_2_power = 99],
     [NominalRow EXCEPT !.terminal_1_power = 701, !.terminal_3_power = 99],
     [NominalRow EXCEPT !.terminal_1_power = 99, !.terminal_2_power = 701,
                        !.terminal_3_power = 750]}

CaseSnapshots(t) == {Snapshot(t, row) : row \in CaseRows}

CaseThresholds ==
    {DefaultThresholds,
     [DefaultThresholds EXCEPT !.carbon_emission_high = 1100],
     [DefaultThresholds EXCEPT !.carbon_emission_high = 1100,
                               !.energy_efficiency_low = 80,
                               !.vessel_congestion = 300]}

InitCases ==
    /\ seed = "none"
    /\ historical_data = <<>>
    /\ thresholds \in CaseThresholds
    /\ active_alerts = <<>>
    /\ alert_history = <<>>
    /\ appended = <<>>
    /\ current_data = EmptyDict
    /\ trend_data = <<>>
    /\ now = BaseTime + 1
    /\ ret = Call("init", 0, <<>>, "none")
    /\ pc = "idle"
    /\ call_thresholds = thresholds

\* analyze_and_generate_alerts on a snapshot and a history of the cases
AnalyzeCase ==
    /\ now <= MaxCaseCycles
    /\ \E current \in CaseSnapshots(now) :
          \E trend \in CaseHistories : Evaluate(current, trend)
    /\ UNCHANGED <<historical_data, seed, thresholds>>

NextCases == AnalyzeCase

SpecCases == InitCases /\ [][NextCases]_vars

---------------------------------------------------------------------------
(* One evaluation taken step by step, with a writer of ALERT_THRESHOLDS on  *)
(* another thread.  The rules read config.ALERT_THRESHOLDS[name] where     *)
(* they use it, so a write lands between any two reads; the steps here are *)
(* the carbon level comparison, the append it leads to, and each of the    *)
(* checks that follow.                                                     *)

\* The checks after the carbon level rule, in the order they run, and the
\* step that follows the last
ChecksAfterLevel ==
    <<"carbon_trend", "energy", "equipment", "environmental", "operational",
      "esg", "predictive", "update">>

\* The step after the check at pc
NextCheck(at) ==
    LET i == CHOOSE k \in 1..(Len(ChecksAfterLevel) - 1) :
                 ChecksAfterLevel[k] = at
    IN  ChecksAfterLevel[i + 1]

\* The check at pc, on ALERT_THRESHOLDS as it reads now
CheckAt(at, current, trend, thr, t, alerts) ==
    CASE at = "carbon_trend" -> CarbonTrendRule(current, trend, alerts)
      [] at = "energy" -> CheckEnergyAlerts(current, trend, thr, alerts)
      [] at = "equipment" -> CheckEquipmentAlerts(current, trend, alerts)
      [] at = "environmental" -> CheckEnvironmentalAlerts(current, alerts)
      [] at = "operational" ->
             CheckOperationalAlerts(current, trend, thr, alerts)
      [] at = "esg" -> CheckEsgAlerts(current, thr, alerts)
      [] at = "predictive" -> CheckPredictiveAlerts(trend, thr, t, alerts)

InitSteps == Init

\* analyze_and_generate_alerts, lines 161-164: the data is fetched and
\* active_alerts emptied
BeginCall ==
    /\ pc = "idle"
    /\ now <= MaxStepCycles
    /\ \E r \in Perturbations :
          \E current \in {GetLatestData(historical_data, r, now)} :
          /\ historical_data' = HistoryAfterLatest(historical_data, current)
          /\ current_data' = current
          /\ trend_data' = GetTrendData(historical_data', DefaultHours)
    /\ active_alerts' = ClearedAlerts(active_alerts)
    /\ call_thresholds' = thresholds
    /\ pc' = "carbon_level"
    /\ UNCHANGED <<seed, thresholds, alert_history, appended, now, ret>>

\* lines 196 and 206: the comparisons of the carbon level rule
CompareCarbonLevel ==
    /\ pc = "carbon_level"
    /\ pc' = LET branch == CarbonLevelBranch(current_data["carbon_emission"],
                                             thresholds)
             IN  IF branch = "none" THEN "carbon_trend" ELSE branch
    /\ UNCHANGED <<historical_data, seed, thresholds, active_alerts,
                   alert_history, appended, current_data, trend_data, now,
                   ret, call_thresholds>>

\* lines 197-205 and 207-215: the append of the carbon level rule
AppendCarbonLevel ==
    /\ pc \in {"critical", "high"}
    /\ active_alerts' =
           CarbonLevelAlert(pc, current_data["carbon_emission"],
                            current_data, thresholds, active_alerts).alerts
    /\ pc' = "carbon_trend"
    /\ UNCHANGED <<historical_data, seed, thresholds, alert_history,
                   appended, current_data, trend_data, now, ret,
                   call_thresholds>>

\* lines 217-231 and 170-185: one of the checks after the carbon level rule; an
\* exception ends the call
RunCheck ==
    /\ pc \in {ChecksAfterLevel[k] : k \in 1..(Len(ChecksAfterLevel) - 1)}
    /\ \E res \in {CheckAt(pc, current_data, trend_data, thresholds, now,
                           active_alerts)} :
          /\ active_alerts' = res.alerts
          /\ IF res.exc = "none"
             THEN /\ pc' = NextCheck(pc)
                  /\ UNCHANGED <<ret, now>>
             ELSE /\ pc' = "idle"
                  /\ ret' = Call("analyze", 0, <<>>, res.exc)
                  /\ now' = now + 1
    /\ UNCHANGED <<historical_data, seed, thresholds, alert_history,
                   appended, current_data, trend_data, call_thresholds>>

\* lines 187-190: _update_alert_history and the return
FinishCall ==
    /\ pc = "update"
    /\ alert_history' = UpdateAlertHistory(alert_history, active_alerts)
    /\ appended' = appended \o active_alerts
    /\ ret' = Call("analyze", 0, active_alerts, "none")
    /\ now' = now + 1
    /\ pc' = "idle"
    /\ UNCHANGED <<historical_data, seed, thresholds, active_alerts,
                   current_data, trend_data, call_thresholds>>

\* config.ALERT_THRESHOLDS[name] = value, one of the assignments of lines
\* 797-812, made on another thread at any point of the call
WriteThreshold ==
    /\ \E pos \in SliderPositions : \E name \in DOMAIN pos :
          /\ thresholds[name] # pos[name]
          /\ thresholds' = [thresholds EXCEPT ![name] = pos[name]]
    /\ UNCHANGED <<historical_data, seed, active_alerts, alert_history,
                   appended, current_data, trend_data, now, ret, pc,
                   call_thresholds>>

NextSteps ==
    \/ BeginCall
    \/ CompareCarbonLevel
    \/ AppendCarbonLevel
    \/ RunCheck
    \/ FinishCall
    \/ WriteThreshold

SpecSteps == InitSteps /\ [][NextSteps]_vars

---------------------------------------------------------------------------
(* Properties *)

Range(f) == {f[x] : x \in DOMAIN f}

\* The alerts of a list that a predicate on (category, type, priority) picks
Matching(alerts, category, type, priority) ==
    {i \in 1..Len(alerts) :
        /\ alerts[i].category = category
        /\ alerts[i].type = type
        /\ alerts[i].priority = priority}

InCategory(alerts, category) ==
    {i \in 1..Len(alerts) : alerts[i].category = category}

\* The last n entries of a list, n at most its length, oldest first
Newest(lst, n) == [i \in 1..n |-> lst[Len(lst) - n + i]]

Evaluated == ret.op = "analyze"

\* C1: alert_history never holds more than 50 entries, and what it holds is
\* exactly the newest 50 (or all, when fewer) of the alerts ever appended,
\* in the order they were appended: eviction takes the oldest first.
C1_AlertHistoryBounded ==
    /\ Len(alert_history) <= AlertHistoryLimit
    /\ alert_history =
           Newest(appended, Min2(Len(appended), AlertHistoryLimit))

\* C1 witness: more than 50 alerts have been appended, so some were evicted
C1_Evicted == Evaluated /\ Len(appended) > AlertHistoryLimit

\* C2: after an evaluation of a snapshot with an emission, the level rule
\* has left exactly one error/critical alert and no warning/high one when
\* the emission is over carbon_emission_critical; otherwise exactly one
\* warning/high alert when it is over carbon_emission_high; otherwise none.
\* Never both.
C2_CarbonLevelExclusive ==
    (Evaluated /\ {"carbon_emission", "timestamp"} \subseteq DOMAIN current_data)
    => LET emission == current_data["carbon_emission"]
           level == InCategory(active_alerts, "emission")
           critical == Matching(active_alerts, "emission", "error", "critical")
           high == Matching(active_alerts, "emission", "warning", "high")
       IN  /\ level = critical \cup high
           /\ IF emission > thresholds.carbon_emission_critical
              THEN Cardinality(critical) = 1 /\ high = {}
              ELSE IF emission > thresholds.carbon_emission_high
              THEN Cardinality(high) = 1 /\ critical = {}
              ELSE level = {}

\* C2 witness: an emission over both thresholds was evaluated
C2_OverBothThresholds ==
    /\ Evaluated
    /\ {"carbon_emission", "timestamp"} \subseteq DOMAIN current_data
    /\ current_data["carbon_emission"] > thresholds.carbon_emission_critical
    /\ current_data["carbon_emission"] > thresholds.carbon_emission_high
    /\ Cardinality(InCategory(active_alerts, "emission")) = 1

LinearEmissions == <<1000, 1020, 1040, 1060, 1080, 1100>>

HandedLinearHistory ==
    /\ Evaluated
    /\ ~ColumnRaises(trend_data, "carbon_emission")
    /\ Column(trend_data, "carbon_emission") = LinearEmissions

\* C3: handed the linear history 1000, 1020, ..., 1100, the predictive rule
\* forecasts 1140, and with carbon_emission_high = 1100 it leaves one
\* info/medium prediction alert that carries 1140.
C3_LinearForecastIs1140 ==
    HandedLinearHistory
    => /\ FutureEmission(LinearEmissions)[1]
              = 1140 * FutureEmission(LinearEmissions)[2]
       /\ thresholds.carbon_emission_high = 1100
          => \E i \in Matching(active_alerts, "prediction", "info", "medium") :
                active_alerts[i].message.args = <<1140>>

\* Two evaluations in a row: the step is an evaluation, and so was the call
\* before it (no slider was moved and nothing else was called in between)
SecondInARow == ret.op = "analyze" /\ ret'.op = "analyze" /\ now' = now + 1

SameReading(a, b) ==
    /\ ValueFields \subseteq (DOMAIN a) \cap (DOMAIN b)
    /\ \A f \in ValueFields : a[f] = b[f]

\* C4 as stated: two evaluations in a row on the same source with the same
\* thresholds yield the same alert content, and the history total after the
\* second is twice the total after the first.
C4_RepeatIsIdempotent ==
    [][SecondInARow
       => /\ Contents(active_alerts') = Contents(active_alerts)
          /\ Len(alert_history') = 2 * Len(alert_history)]_vars

\* C4 amended: two evaluations in a row with the same thresholds yield the
\* same alert content (timestamps aside) when get_latest_data draws the
\* same reading in both; and when the history was empty before the first of
\* them (it holds just the first call's alerts), its total after the second
\* is twice its total after the first.
C4_RepeatWithSameReading ==
    [][(SecondInARow /\ SameReading(current_data, current_data'))
       => /\ Contents(active_alerts') = Contents(active_alerts)
          /\ Len(alert_history) = Len(active_alerts)
             => Len(alert_history') = 2 * Len(alert_history)]_vars

\* C4 witness: the history is two evaluations' alerts, the second list a
\* repeat of the first in content, with later timestamps
C4_HistoryIsTwoRepeats ==
    /\ Evaluated
    /\ Len(active_alerts) > 0
    /\ Len(alert_history) = 2 * Len(active_alerts)
    /\ Contents(SubSeq(alert_history, 1, Len(active_alerts)))
          = Contents(active_alerts)
    /\ alert_history[1].timestamp < active_alerts[1].timestamp

\* The trend rule's division by the first of the last 3 emissions, at 0
ZeroBaseline ==
    /\ Len(trend_data) >= 3
    /\ ~ColumnRaises(trend_data, "carbon_emission")
    /\ LET last3 == Column(LastSlice(trend_data, 3), "carbon_emission") IN
       StrictlyIncreasing(last3) /\ last3[1] = 0

\* The spike rule's mean of all samples but the newest, at 0
ZeroMean ==
    /\ Len(trend_data) >= 2
    /\ ~ColumnRaises(trend_data, "energy_consumption")
    /\ SumSeq(Column(ButLast(trend_data), "energy_consumption")) = 0

\* C5: an evaluation whose trend rule meets a zero baseline, or whose spike
\* rule meets a zero mean, completes without a fault and leaves no alert of
\* that rule among the active alerts.
C5_DegenerateArithmeticSkipped ==
    (Evaluated /\ Fields \subseteq DOMAIN current_data)
    => /\ ZeroBaseline
          => /\ ret.exc = "none"
             /\ \A i \in InCategory(active_alerts, "trend") :
                   active_alerts[i].title # "carbon rising"
       /\ ZeroMean
          => /\ ret.exc = "none"
             /\ InCategory(active_alerts, "consumption") = {}

\* The documented ranges of TelemetrySnapshot
InRange(d) ==
    /\ d["carbon_emission"] >= 0
    /\ d["energy_consumption"] >= 0
    /\ d["energy_efficiency"] \in 0..100
    /\ d["vessel_count"] >= 0
    /\ d["renewable_ratio"] \in 0..100
    /\ d["esg_score"] \in 0..100
    /\ d["terminal_1_power"] >= 0
    /\ d["terminal_2_power"] >= 0
    /\ d["terminal_3_power"] >= 0
    /\ d["weather_wind_speed"] >= 0
    /\ d["air_quality_aqi"] >= 0

ContractViolated(d) == ~(Fields \subseteq DOMAIN d) \/ ~InRange(d)

\* C6: an evaluation handed a snapshot with a field missing or a bounded
\* field out of its range fails, and no alerts come of it.
C6_InvalidSnapshotRejected ==
    (Evaluated /\ ContractViolated(current_data))
    => /\ ret.exc # "none"
       /\ ret.value = <<>>
       /\ Has(current_data, "timestamp")
          => \A i \in 1..Len(alert_history) :
                alert_history[i].timestamp # current_data["timestamp"]

\* The snapshot of the last refresh cycle, when the last call made one
CycleSnapshot ==
    IF ret.op = "analyze" THEN current_data ELSE ret.value

RefreshCycleRan == ret.op \in {"analyze", "get_latest_data"}

\* C7 as stated: the history never exceeds 24 samples, and after a refresh
\* cycle its last entry is the snapshot of that cycle.
C7_HistoryGainsEachSnapshot ==
    /\ Len(historical_data) <= HistoryWindow
    /\ RefreshCycleRan
       => historical_data[Len(historical_data)] = CycleSnapshot

\* What the constructor leaves in historical_data, by seed profile
SeededHistory == [p \in SeedProfiles |-> InitializeHistoricalData(p)]

\* C7 amended: the history is seeded with 24 samples at startup and no
\* refresh cycle changes it: get_latest_data returns a perturbed copy of
\* the last entry and appends nothing, so the history always is the 24
\* seeded samples (never more than the window), its last entry the seeded
\* one and not the snapshot of the cycle.
C7_HistoryStaysAsSeeded ==
    /\ Len(historical_data) = HistoryWindow
    /\ historical_data = SeededHistory[seed]

\* C7 witness: several cycles ran and the last entry still is the sample
\* of base_time, older than the snapshot of the last cycle
C7_CyclesRanOnSeededHistory ==
    /\ Evaluated
    /\ now > BaseTime + 3
    /\ historical_data[Len(historical_data)]["timestamp"] = BaseTime
    /\ current_data["timestamp"] > BaseTime

\* C8: get_trend_data(n) returns at most n samples, the n newest of the
\* history oldest first, nothing for n = 0, and never what get_latest_data
\* returns.
C8_TrendDataIsNewestN ==
    ret.op = "get_trend_data"
    => /\ Len(ret.value) <= ret.arg
       /\ ret.value = Newest(historical_data,
                             Min2(ret.arg, Len(historical_data)))
       /\ ret.arg = 0 => ret.value = <<>>
       /\ \A r \in Perturbations :
             GetLatestData(historical_data, r, now) \notin Range(ret.value)

StatisticsOfEmpty == ret.op = "get_alert_statistics" /\ alert_history = <<>>

\* C9 as stated: on an empty history get_alert_statistics returns, without
\* error, a structure with total = 0 and empty by_type, by_category and
\* by_priority.
C9_EmptyStatisticsAreZero ==
    StatisticsOfEmpty
    => /\ ret.exc = "none"
       /\ {"total", "by_type", "by_category", "by_priority"}
             \subseteq DOMAIN ret.value
       /\ ret.value["total"] = 0
       /\ DOMAIN ret.value["by_type"] = {}
       /\ DOMAIN ret.value["by_category"] = {}
       /\ DOMAIN ret.value["by_priority"] = {}

\* C9 amended: on an empty history get_alert_statistics returns, without
\* error, the empty mapping {}: it has no total, by_type, by_category or
\* by_priority entry.
C9_EmptyStatisticsAreEmptyMapping ==
    StatisticsOfEmpty => ret.exc = "none" /\ DOMAIN ret.value = {}

\* C9 witness: statistics were asked for after an evaluation that left the
\* history empty
C9_AskedOnEmptyHistory == StatisticsOfEmpty /\ now > BaseTime + 1

\* The entries of the history whose field has the value v
WithValue(history, field, v) ==
    {i \in 1..Len(history) : history[i][field] = v}

\* The counts of the history grouped by a field, from the definition
Grouped(history, field) ==
    [v \in {history[i][field] : i \in 1..Len(history)} |->
        Cardinality(WithValue(history, field, v))]

RECURSIVE SumOfCounts(_)
SumOfCounts(d) ==
    IF DOMAIN d = {} THEN 0
    ELSE LET k == CHOOSE x \in DOMAIN d : TRUE IN
         d[k] + SumOfCounts(Without(d, k))

\* C10: on a history that is not empty get_alert_statistics returns total =
\* the length of the history as it is at the call, and by_type, by_category
\* and by_priority = the counts of its entries grouped by that field; the
\* counts of each grouping add up to total.
C10_StatisticsCountHistory ==
    (ret.op = "get_alert_statistics" /\ alert_history # <<>>)
    => /\ ret.value["total"] = Len(alert_history)
       /\ ret.value["by_type"] = Grouped(alert_history, "type")
       /\ ret.value["by_category"] = Grouped(alert_history, "category")
       /\ ret.value["by_priority"] = Grouped(alert_history, "priority")
       /\ \A g \in {"by_type", "by_category", "by_priority"} :
             SumOfCounts(ret.value[g]) = ret.value["total"]

\* C10 witness: statistics of a history that more than one evaluation
\* filled, some field value counted more than once
C10_AskedAfterSeveralEvaluations ==
    /\ ret.op = "get_alert_statistics"
    /\ now > BaseTime + 2
    /\ Len(alert_history) > 1
    /\ \E v \in DOMAIN ret.value["by_type"] : ret.value["by_type"][v] > 1

\* C11: the consumption spike rule leaves exactly one error/high
\* consumption alert if and only if the history handed over has at least 2
\* samples and the current consumption is over the mean of all its samples
\* but the most recent one times the spike ratio; with 500 in each of four
\* averaged samples and the ratio 1.3 that is if and only if the
\* consumption is over 650, so not at 650.
C11_SpikeIffOverMean ==
    Evaluated
    => LET x == current_data["energy_consumption"]
           rest == ButLast(trend_data)
           total == SumSeq(Column(rest, "energy_consumption"))
           ratio == thresholds.energy_consumption_spike
           spikes == InCategory(active_alerts, "consumption")
           fires == /\ Len(trend_data) >= 2
                    /\ x * Len(rest) * ratio[2] > total * ratio[1]
       IN  /\ ret.exc = "none"
           /\ spikes = Matching(active_alerts, "consumption", "error", "high")
           /\ Cardinality(spikes) = IF fires THEN 1 ELSE 0
           /\ (ratio = <<13, 10>> /\ Column(rest, "energy_consumption")
                                        = Flat(4, 500))
              => (spikes # {} <=> x > 650)

\* C11 witness: four averaged samples of 500 and a fifth of 651, and the
\* consumption 651 left the alert
C11_SpikeJustOver650 ==
    /\ Evaluated
    /\ Column(trend_data, "energy_consumption") = <<500, 500, 500, 500, 651>>
    /\ current_data["energy_consumption"] = 651
    /\ Cardinality(InCategory(active_alerts, "consumption")) = 1

\* The warning/medium trend alerts of the last evaluation
CarbonRising == Matching(active_alerts, "trend", "warning", "medium")

\* C12: the carbon trend rule leaves one warning/medium trend alert if and
\* only if the history has at least 3 samples, its last 3 emissions rise
\* strictly and (last - first) / first * 100 is over 15.  For 100, 110, 125
\* it fires and reports 25.0 (250 tenths); for 100, 95, 110 it does not;
\* for a strictly rising series with a rise of exactly 15% it does not.
C12_TrendIffRisingOver15 ==
    Evaluated
    => LET ys == Column(trend_data, "carbon_emission")
           n == Len(ys)
           fires == IF n >= 3
                    THEN /\ ys[n - 2] < ys[n - 1]
                         /\ ys[n - 1] < ys[n]
                         /\ (ys[n] - ys[n - 2]) * 100 > 15 * ys[n - 2]
                    ELSE FALSE
       IN  /\ ret.exc = "none"
           /\ Cardinality(CarbonRising) = IF fires THEN 1 ELSE 0
           /\ ys = <<100, 110, 125>>
              => \E i \in CarbonRising :
                    active_alerts[i].message.args = <<250>>
           /\ ys = <<100, 95, 110>> => CarbonRising = {}
           /\ ys = <<100, 110, 115>> => CarbonRising = {}

\* C12 witness: the history 100, 110, 125 left the alert that reports 25.0
C12_Reported25 ==
    /\ Evaluated
    /\ Column(trend_data, "carbon_emission") = <<100, 110, 125>>
    /\ \E i \in CarbonRising : active_alerts[i].message.args = <<250>>

\* The alerts of the last evaluation that a rule on the history leaves
VesselsRising == Matching(active_alerts, "trend", "info", "medium")
Spikes == InCategory(active_alerts, "consumption")
Predictions == InCategory(active_alerts, "prediction")
FromHistoryRules == CarbonRising \cup VesselsRising \cup Spikes \cup Predictions

\* What the rules that read the snapshot alone leave on a list, in order:
\* carbon level, efficiency, renewable ratio, terminals 1..3, wind, air
\* quality, vessel congestion, ESG
SnapshotRulesAlerts(current, thr) ==
    CarbonLevelRule(current["carbon_emission"], current, thr, <<>>).alerts
    \o EnergyEfficiencyRule(current["energy_efficiency"], current, thr,
                            <<>>).alerts
    \o RenewableRule(current["renewable_ratio"], current, thr, <<>>).alerts
    \o TerminalRule(1, current["terminal_1_power"], current, <<>>).alerts
    \o TerminalRule(2, current["terminal_2_power"], current, <<>>).alerts
    \o TerminalRule(3, current["terminal_3_power"], current, <<>>).alerts
    \o WeatherRule(current["weather_wind_speed"], current, <<>>).alerts
    \o AirQualityRule(current["air_quality_aqi"], current, <<>>).alerts
    \o VesselCongestionRule(current["vessel_count"], current, thr,
                            <<>>).alerts
    \o CheckEsgAlerts(current, thr, <<>>).alerts

\* The entries of a list at the places outside a set, in order
RECURSIVE Outside(_, _, _)
Outside(alerts, places, i) ==
    IF i > Len(alerts) THEN <<>>
    ELSE IF i \in places THEN Outside(alerts, places, i + 1)
    ELSE <<alerts[i]>> \o Outside(alerts, places, i + 1)

\* C13: handed a history with fewer samples than a rule's window (3 for the
\* carbon trend, 2 for the consumption spike, 4 for the vessel trend, 6 for
\* the prediction; the empty history included), that rule leaves no alert
\* and the evaluation completes without error, and the rules that do not
\* read the history are evaluated all the same.
C13_ShortHistorySkipsRule ==
    Evaluated
    => /\ ret.exc = "none"
       /\ Len(trend_data) < 3 => CarbonRising = {}
       /\ Len(trend_data) < 2 => Spikes = {}
       /\ Len(trend_data) < 4 => VesselsRising = {}
       /\ Len(trend_data) < 6 => Predictions = {}
       /\ Outside(active_alerts, FromHistoryRules, 1)
              = SnapshotRulesAlerts(current_data, thresholds)

\* C13 witness: a history of 5 steeply rising emissions, long enough for
\* the carbon trend and too short for the prediction, with a wind alert
C13_FiveSamplesNoPrediction ==
    /\ Evaluated
    /\ Len(trend_data) = 5
    /\ CarbonRising # {}
    /\ Predictions = {}
    /\ InCategory(active_alerts, "weather") # {}

\* C14: the weather rule leaves exactly one warning/medium weather alert if
\* and only if the wind speed is over 20: one at 21, none at 20.
C14_WindOver20 ==
    Evaluated
    => LET wind == current_data["weather_wind_speed"]
           weather == InCategory(active_alerts, "weather")
       IN  /\ weather = Matching(active_alerts, "weather", "warning", "medium")
           /\ Cardinality(weather) = IF wind > 20 THEN 1 ELSE 0
           /\ wind = 21 => Cardinality(weather) = 1
           /\ wind = 20 => weather = {}

\* C14 witness: a wind speed of 21 left the weather alert
C14_WindAt21 ==
    /\ Evaluated
    /\ current_data["weather_wind_speed"] = 21
    /\ Cardinality(InCategory(active_alerts, "weather")) = 1

\* What each of the twelve rules leaves on an empty list, one after the
\* other in the order of the checks
EachRuleAlone(current, trend, thr, t) ==
    CarbonLevelRule(current["carbon_emission"], current, thr, <<>>).alerts
    \o CarbonTrendRule(current, trend, <<>>).alerts
    \o EnergyEfficiencyRule(current["energy_efficiency"], current, thr,
                            <<>>).alerts
    \o EnergySpikeRule(current["energy_consumption"], current, trend, thr,
                       <<>>).alerts
    \o RenewableRule(current["renewable_ratio"], current, thr, <<>>).alerts
    \o TerminalRule(1, current["terminal_1_power"], current, <<>>).alerts
    \o TerminalRule(2, current["terminal_2_power"], current, <<>>).alerts
    \o TerminalRule(3, current["terminal_3_power"], current, <<>>).alerts
    \o WeatherRule(current["weather_wind_speed"], current, <<>>).alerts
    \o AirQualityRule(current["air_quality_aqi"], current, <<>>).alerts
    \o VesselCongestionRule(current["vessel_count"], current, thr,
                            <<>>).alerts
    \o VesselTrendRule(current["vessel_count"], current, trend, <<>>).alerts
    \o CheckEsgAlerts(current, thr, <<>>).alerts
    \o CheckPredictiveAlerts(trend, thr, t, <<>>).alerts

\* priority_order of main(), the order the page sorts by
PriorityOrder(priority) ==
    CASE priority = "critical" -> 0
      [] priority = "high" -> 1
      [] priority = "medium" -> 2
      [] priority = "low" -> 3
      [] OTHER -> 4

\* C15: every evaluation of the program evaluates all twelve rules, whether
\* or not another rule fired: the list it returns, which is active_alerts,
\* is what each rule leaves on its own, concatenated in the order carbon
\* level, carbon trend, efficiency, consumption spike, renewable ratio,
\* terminals 1..3, wind, air quality, vessel congestion, vessel trend, ESG,
\* prediction.
C15_AllRulesInRuleOrder ==
    Evaluated
    => /\ ret.exc = "none"
       /\ ret.value = active_alerts
       /\ ret.value = EachRuleAlone(current_data, trend_data, thresholds,
                                    now - 1)

\* C15 witness: an evaluation returned several alerts with one of a lower
\* priority before one of a higher priority
C15_ReturnedOutOfPriorityOrder ==
    /\ Evaluated
    /\ Len(ret.value) >= 3
    /\ \E i, j \in 1..Len(ret.value) :
          /\ i < j
          /\ PriorityOrder(ret.value[i].priority)
                 > PriorityOrder(ret.value[j].priority)

\* C16: a call of analyze_and_generate_alerts that returns leaves the
\* returned list as the last len(active) entries of alert_history, in the
\* same order, and before them the entries the history held before the
\* call, in their order, less the oldest ones when the total is over 50.
C16_ActiveIsTailOfHistory ==
    [][(ret'.op = "analyze" /\ ret'.exc = "none" /\ now' # now)
       => LET n == Len(active_alerts')
              kept == Len(alert_history') - n
              before == Len(alert_history)
          IN  /\ ret'.value = active_alerts'
              /\ kept = Min2(before, AlertHistoryLimit - n)
              /\ SubSeq(alert_history', kept + 1, kept + n) = active_alerts'
              /\ SubSeq(alert_history', 1, kept)
                     = SubSeq(alert_history, before - kept + 1, before)]_vars

\* C16 witness: a call returned several alerts onto a history that had to
\* give up its oldest entries for them
C16_AppendedWithEviction ==
    /\ Evaluated
    /\ ret.exc = "none"
    /\ Len(active_alerts) >= 2
    /\ Len(alert_history) = AlertHistoryLimit
    /\ Len(appended) > AlertHistoryLimit
    /\ alert_history[AlertHistoryLimit] = active_alerts[Len(active_alerts)]

\* The alerts of a list that the three rules on the sliders' thresholds leave
HighEmission(alerts) == Matching(alerts, "emission", "warning", "high")
LowEfficiency(alerts) == InCategory(alerts, "efficiency")
Congestion(alerts) == Matching(alerts, "operation", "warning", "high")

\* C17: a step that moves the sliders changes ALERT_THRESHOLDS to the
\* sliders' values and leaves active_alerts, alert_history and the
\* statistics of alert_history as they were; an evaluation decides the
\* rules on the sliders' thresholds with the values ALERT_THRESHOLDS holds
\* when it runs, and reports those values in its alerts.
C17_ThresholdChangeNotRetroactive ==
    [][/\ ret'.op = "set_thresholds"
          => /\ \A name \in DOMAIN ret'.value :
                    thresholds'[name] = ret'.value[name]
             /\ active_alerts' = active_alerts
             /\ alert_history' = alert_history
             /\ GetAlertStatistics(alert_history')
                    = GetAlertStatistics(alert_history)
       /\ (ret'.op = "analyze" /\ now' # now)
          => LET current == current_data'
                 high == HighEmission(active_alerts')
                 low == LowEfficiency(active_alerts')
                 congestion == Congestion(active_alerts')
             IN  /\ high # {}
                    <=> /\ current["carbon_emission"]
                               > thresholds.carbon_emission_high
                        /\ current["carbon_emission"]
                               <= thresholds.carbon_emission_critical
                 /\ \A i \in high :
                        active_alerts'[i].message.args[2]
                            = thresholds.carbon_emission_high
                 /\ low # {}
                    <=> current["energy_efficiency"]
                            < thresholds.energy_efficiency_low
                 /\ \A i \in low :
                        active_alerts'[i].message.args[2]
                            = thresholds.energy_efficiency_low
                 /\ congestion # {}
                    <=> current["vessel_count"]
                            > thresholds.vessel_congestion]_vars

\* C17 witness: the history holds an emission alert decided on the
\* threshold 1200 and, from an evaluation after the slider was moved, one
\* decided on 1100
C17_OldAlertKeptNewValueUsed ==
    /\ Evaluated
    /\ thresholds.carbon_emission_high = 1100
    /\ \E i \in HighEmission(active_alerts) :
          active_alerts[i].message.args[2] = 1100
    /\ \E i \in HighEmission(alert_history) :
          alert_history[i].message.args[2] = 1200

\* C18 as stated: a call that a writer of ALERT_THRESHOLDS ran alongside
\* returns what the rules leave on the thresholds as they read when the
\* call started
C18_CallSeesOneSnapshot ==
    (pc = "idle" /\ Evaluated /\ ret.exc = "none")
    => ret.value = RunChecks(<<>>, current_data, trend_data,
                             call_thresholds, now - 1).alerts

\* The documented ranges of a snapshot
InDocumentedRanges(snapshot) ==
    /\ snapshot["carbon_emission"] >= 0
    /\ snapshot["energy_consumption"] >= 0
    /\ snapshot["energy_efficiency"] \in 0..100
    /\ snapshot["vessel_count"] >= 0
    /\ snapshot["renewable_ratio"] \in 0..100
    /\ snapshot["esg_score"] \in 0..100
    /\ snapshot["terminal_1_power"] >= 0
    /\ snapshot["terminal_2_power"] >= 0
    /\ snapshot["terminal_3_power"] >= 0
    /\ snapshot["weather_wind_speed"] >= 0
    /\ snapshot["air_quality_aqi"] >= 0

\* C19: every snapshot get_latest_data returns, to the page or to the
\* engine, lies in the documented ranges, and the rules decide on and report
\* the values of the snapshot as they are: the ESG, efficiency, congestion
\* and emission alerts carry the snapshot's own readings, and the ESG alert
\* is there exactly when the snapshot's score is under the threshold.
C19_SnapshotInRangeUsedAsGiven ==
    /\ ret.op = "get_latest_data" => InDocumentedRanges(ret.value)
    /\ Evaluated
       => /\ InDocumentedRanges(current_data)
          /\ InCategory(active_alerts, "esg") # {}
             <=> current_data["esg_score"] < thresholds.esg_score_low
          /\ \A i \in InCategory(active_alerts, "esg") :
                 active_alerts[i].message.args[1] = current_data["esg_score"]
          /\ \A i \in LowEfficiency(active_alerts) :
                 active_alerts[i].message.args[1]
                     = FormatFixed(current_data["energy_efficiency"], 1, 1)
          /\ \A i \in Congestion(active_alerts) :
                 active_alerts[i].message.args
                     = <<current_data["vessel_count"]>>
          /\ \A i \in InCategory(active_alerts, "emission") :
                 active_alerts[i].message.args[1]
                     = FormatFixed(current_data["carbon_emission"], 1, 0)

\* C19 witness: the engine was handed an ESG score that the draw took under
\* every seeded score, and reported it as it came
C19_ScoreUnderSeededRange ==
    /\ Evaluated
    /\ current_data["esg_score"] < SeedRange["esg_score"][1]
    /\ \E i \in InCategory(active_alerts, "esg") :
          active_alerts[i].message.args[1] = current_data["esg_score"]

\* The least-squares line through (0, ys[1]), ..., (n-1, ys[n]) at x, from
\* the sums about the mean index: mean(ys) + Sxy/Sxx * (x - mean index),
\* as <<num, den>> with the indices scaled by n to stay in the integers
LineValueAt(ys, x) ==
    LET n == Len(ys)
        sx == SumSeq([i \in 1..n |-> i - 1])
        dev == [i \in 1..n |-> n * (i - 1) - sx]
        sxx == SumSeq([i \in 1..n |-> dev[i] * dev[i]])
        sxy == SumSeq([i \in 1..n |-> dev[i] * ys[i]])
    IN  <<SumSeq(ys) * sxx + n * sxy * (n * x - sx), n * sxx>>

TerminalPower(snapshot, k) ==
    snapshot[<<"terminal_1_power", "terminal_2_power",
               "terminal_3_power">>[k]]

\* The equipment alerts of a list, in the order of the list
EquipmentAlerts(alerts) ==
    SelectSeq(alerts, LAMBDA a : a.category = "equipment")

\* The terminals of a snapshot outside 100..700, in terminal order
TerminalsOutOfBand(snapshot) ==
    SelectSeq(<<1, 2, 3>>,
              LAMBDA k : \/ TerminalPower(snapshot, k) > 700
                         \/ TerminalPower(snapshot, k) < 100)

\* C21: the equipment alerts of an evaluation are one per terminal whose
\* power is over 700 (warning/medium) or, failing that, under 100
\* (info/low), none for a terminal at 100..700 with 700 and 100 included,
\* in terminal order 1, 2, 3, each on its own terminal's power alone and
\* whatever ALERT_THRESHOLDS holds.
C21_OneAlertPerTerminalOutOfBand ==
    Evaluated
    => LET equipment == EquipmentAlerts(active_alerts)
           terminals == TerminalsOutOfBand(current_data)
       IN  /\ Len(equipment) = Len(terminals)
           /\ \A i \in 1..Len(equipment) :
                  LET power == TerminalPower(current_data, terminals[i]) IN
                  /\ equipment[i].message.args
                         = <<terminals[i], FormatFixed(power, 1, 0)>>
                  /\ equipment[i].type
                         = IF power > 700 THEN "warning" ELSE "info"
                  /\ equipment[i].priority
                         = IF power > 700 THEN "medium" ELSE "low"
           /\ \A k \in 1..3 :
                  TerminalPower(current_data, k) \in {100, 700}
                  => \A i \in 1..Len(equipment) :
                         equipment[i].message.args[1] # k

\* C21 witness: terminal 1 at 99 and terminals 2 and 3 over 700 left three
\* equipment alerts, info/low first, under thresholds other than the defaults
C21_ThreeTerminalsAlerted ==
    /\ Evaluated
    /\ thresholds # DefaultThresholds
    /\ TerminalPower(current_data, 1) = 99
    /\ LET equipment == EquipmentAlerts(active_alerts) IN
       /\ Len(equipment) = 3
       /\ equipment[1].priority = "low"
       /\ equipment[2].priority = "medium"
       /\ equipment[3].message.args[1] = 3

\* C22: no call of get_latest_data, get_trend_data or
\* analyze_and_generate_alerts (nor any other step of the program) changes
\* historical_data: the same samples, in the same order, with the same
\* values before and after; the snapshot a call draws is stamped with the
\* time of the call and is not an entry of the history, and an evaluation is
\* handed the history's own last 6 samples.
C22_CallsLeaveHistoryAlone ==
    [][/\ historical_data' = historical_data
       /\ Len(historical_data') = Len(historical_data)
       /\ ret'.op = "get_latest_data"
          => /\ ret'.value["timestamp"] = now
             /\ \A i \in 1..Len(historical_data') :
                    historical_data'[i] # ret'.value
       /\ (ret'.op = "analyze" /\ now' # now)
          => /\ trend_data' = SubSeq(historical_data,
                                     Len(historical_data) - DefaultHours + 1,
                                     Len(historical_data))
             /\ \A i \in 1..Len(historical_data') :
                    historical_data'[i] # current_data'
       /\ ret'.op = "get_trend_data"
          => \A i \in 1..Len(ret'.value) :
                 \E j \in 1..Len(historical_data) :
                     ret'.value[i] = historical_data[j]]_vars

\* C22 witness: after an evaluation, get_latest_data returned a snapshot
\* with another emission than the last sample, which is still the seeded one
C22_PerturbedCopyReturned ==
    /\ ret.op = "get_latest_data"
    /\ appended # <<>>
    /\ ret.value["carbon_emission"]
           # historical_data[Len(historical_data)]["carbon_emission"]
    /\ historical_data[Len(historical_data)]
           = SeededHistory[seed][HistoryWindow]

\* Whether a list holds the carbon trend alert, and the vessel trend alert
HasCarbonTrend(alerts) == Matching(alerts, "trend", "warning", "medium") # {}
HasVesselTrend(alerts) == Matching(alerts, "trend", "info", "medium") # {}

\* C23: an evaluation that follows another on the same data source gives
\* the carbon trend rule and the vessel trend rule the outcome they had in
\* the one before (active_alerts still holds its result), whatever snapshot
\* is drawn and wherever the sliders stand, and every evaluation is handed
\* the last 6 samples of the history, the same 6 as the one before.
C23_TrendRulesSameEveryCycle ==
    [][(ret'.op = "analyze" /\ now' # now)
       => /\ trend_data' = LastSlice(historical_data, DefaultHours)
          /\ Len(trend_data') = DefaultHours
          /\ now > BaseTime + 1
             => /\ trend_data' = trend_data
                /\ HasCarbonTrend(active_alerts')
                       <=> HasCarbonTrend(active_alerts)
                /\ HasVesselTrend(active_alerts')
                       <=> HasVesselTrend(active_alerts)]_vars

\* C23 witness: a third or later evaluation, on another snapshot than the
\* history's last sample and with the sliders moved, in which both trend
\* rules fired
C23_TrendsFiredAgain ==
    /\ Evaluated
    /\ now > BaseTime + 3
    /\ thresholds # DefaultThresholds
    /\ current_data["carbon_emission"]
           # historical_data[Len(historical_data)]["carbon_emission"]
    /\ HasCarbonTrend(active_alerts)
    /\ HasVesselTrend(active_alerts)

\* C24: a call of analyze_and_generate_alerts in which a rule raises leaves
\* alert_history as it was before the call, and in active_alerts the alerts
\* of the rules that ran before the one that raised; a call that returns
\* adds the alerts of its own rules to the history and nothing else, so
\* what a failed call left in active_alerts never reaches the history.
C24_FailedCallLeavesHistory ==
    [][(ret'.op = "analyze" /\ now' # now)
       => /\ ret'.exc # "none"
             => /\ alert_history' = alert_history
                /\ appended' = appended
                /\ ret'.value = <<>>
                /\ \A i \in 1..Len(active_alerts') :
                       /\ active_alerts'[i].timestamp = now
                       /\ ~Has(current_data', "esg_score")
                          => active_alerts'[i].category # "prediction"
          /\ ret'.exc = "none"
             => /\ appended' = appended \o EachRuleAlone(current_data',
                                   trend_data', thresholds, now)
                /\ Len(alert_history')
                       = Min2(AlertHistoryLimit,
                              Len(alert_history) + Len(ret'.value))]_vars

\* C24 witness: a call raised after the carbon level rule had fired, on a
\* history that holds alerts of an earlier call: the alert is in
\* active_alerts and not in alert_history
C24_PartialAlertsNotInHistory ==
    /\ Evaluated
    /\ ret.exc # "none"
    /\ alert_history # <<>>
    /\ active_alerts # <<>>
    /\ \A i \in 1..Len(active_alerts) : \A j \in 1..Len(alert_history) :
           alert_history[j] # active_alerts[i]

=============================================================================
